---------------------------- MODULE Spec2Model ----------------------------
(***************************************************************************)
(* A model of the metricsMind server: the customer and plan collections    *)
(* with the request handlers that write them, and the metrics service      *)
(* (MetricsService) with its process-wide result cache.                    *)
(*                                                                         *)
(* Time is a discrete clock of ticks.  One tick stands for TickMs          *)
(* milliseconds when an age is compared with the cache time-to-live, and   *)
(* the calendar is compressed: a month has TicksPerMonth ticks, the first  *)
(* being 00:00 of its first day, the one before the last being 00:00 of    *)
(* its last day and the last an instant later during that last day.        *)
(*                                                                         *)
(* Numbers are exact fractions [n, d]; d = 0 encodes the non-finite        *)
(* results of a JavaScript division by zero (NaN, +Infinity, -Infinity).   *)
(***************************************************************************)
EXTENDS Integers, Sequences, FiniteSets, TLC

\* ------------------------------------------------------------------ bounds

\* Last month of the modelled calendar (months 0 .. MaxMonth).
MaxMonth == 2
\* Ticks in a month of the compressed calendar (at least 3).
TicksPerMonth == 3
\* Most customer documents ever created.
MaxCustomers == 2
\* Most plan documents ever created.
MaxPlans == 1
\* Most metrics requests started over the prepared database.
MaxRequests == 1
\* Most write requests (customers and plans) ever served.
MaxWrites == 4
\* The cache specification: its last tick, its requests and its writes.
CacheMaxTime == 3
CacheRequests == 3
CacheWrites == 2
\* The churn specification: its customers and its writes.
ChurnCustomers == 3
ChurnWrites == 6
\* The dated specification: its customers and its writes.
DatedCustomers == 2
DatedWrites == 4
\* The two-account specification: its last tick, its plans, its requests
\* and its writes.
\* Most months of history asked for.
MaxHistory == 3
\* Most writes before the customer growth is asked for.
GrowthWrites == 5
\* Most requests made of a persistence layer that may fail.
FailureRequests == 2
\* Last tick and most requests of the interleaved calculations.
InterleaveMaxTime == 2
InterleaveRequests == 2
\* Last tick, most writes and most requests of the values served one from
\* the other.
StaleMaxTime == 6
StaleWrites == 4
StaleRequests == 4
\* Most writes of the two accounts' plan and customer routes.
OwnerWrites == 5
\* Most payments, and most writes of the payment routes.
MaxPayments == 2
PaymentWrites == 6
\* Most writes of the concurrent customer create requests.
RaceWrites == 4
AccountMaxTime == 2
AccountPlans == 2
AccountRequests == 2
AccountWrites == 4

\* Milliseconds in one clock tick.
TickMs == 150000

MaxTime == (MaxMonth + 1) * TicksPerMonth - 1

Users == {1}
Emails == {"a@x.io", "b@x.io"}
PlanNames == {"pro"}
AcquisitionCosts == {0, 60}

\* ----------------------------------------------------------------- numbers

RECURSIVE GCD(_, _)
GCD(a, b) == IF b = 0 THEN a ELSE GCD(b, a % b)

Abs(x) == IF x < 0 THEN -x ELSE x

Sign(x) == IF x > 0 THEN 1 ELSE IF x < 0 THEN -1 ELSE 0

\* The fraction n/d in lowest terms with a positive denominator; n/0 is
\* NaN (0/0), +Infinity or -Infinity, as a JavaScript division gives.
Frac(n, d) ==
    IF d = 0 THEN [n |-> Sign(n), d |-> 0]
    ELSE LET g == GCD(Abs(n), Abs(d))
         IN  [n |-> Sign(d) * (n \div g), d |-> Abs(d) \div g]

Num(i) == [n |-> i, d |-> 1]

NaN == [n |-> 0, d |-> 0]

IsFiniteNum(x) == x.d # 0

IsZero(x) == x.d # 0 /\ x.n = 0

IsPositive(x) == x.n > 0

NumAdd(x, y) ==
    IF x.d = 0 \/ y.d = 0
    THEN (IF x = NaN \/ y = NaN \/ (x.d = 0 /\ y.d = 0 /\ x.n # y.n) THEN NaN
          ELSE IF x.d = 0 THEN x ELSE y)
    ELSE Frac(x.n * y.d + y.n * x.d, x.d * y.d)

NumNeg(x) == [n |-> -x.n, d |-> x.d]

NumSub(x, y) == NumAdd(x, NumNeg(y))

NumMul(x, y) ==
    IF x.d = 0 \/ y.d = 0
    THEN [n |-> Sign(x.n) * Sign(y.n), d |-> 0]
    ELSE Frac(x.n * y.n, x.d * y.d)

NumDiv(x, y) ==
    IF x.d = 0 \/ y.d = 0
    THEN (IF x.d = 0 /\ y.d # 0
          THEN [n |-> x.n * (IF y.n < 0 THEN -1 ELSE 1), d |-> 0]
          ELSE IF x.d # 0 /\ y.d = 0 /\ y.n # 0 THEN Num(0)
          ELSE NaN)
    ELSE Frac(x.n * y.d, x.d * y.n)

\* The sum of f[x] over the finite set S.
RECURSIVE SumOver(_, _)
SumOver(S, f) ==
    IF S = {} THEN Num(0)
    ELSE LET x == CHOOSE y \in S : TRUE
         IN  NumAdd(f[x], SumOver(S \ {x}, f))

\* ------------------------------------------------------------------- state

VARIABLES
    now,          \* Date.now(), in ticks (UTC)
    tz,           \* the server's time zone: local time is UTC + tz ticks
    customers,    \* the Customer collection: a set of documents
    plans,        \* the Plan collection: a set of documents
    nextCustomer, \* the _id the next created customer gets
    nextPlan,     \* the _id the next created plan gets
    writes,       \* write requests served so far
    cache,        \* MetricsService.cache: key -> {data, timestamp}
    req,          \* the metrics request in flight, or NoRequest
    started,      \* metrics requests started so far
    cleared,      \* history: keys cached when clearCache ran, not called since
    monthStart,   \* history: ids of the customers active when the month began
    payments      \* the Payment collection: a set of documents

vars == <<now, tz, customers, plans, nextCustomer, nextPlan, writes, cache,
          req, started, cleared, monthStart, payments>>

\* churnDate: { default: null }
NoDate == -1

Statuses == {"active", "churned", "trial", "suspended"}

BillingCycles == {"monthly", "quarterly", "yearly"}

\* ---------------------------------------------------------------- calendar

\* date.getMonth() (with getFullYear()): the month of an instant on the
\* server's local clock.
LocalMonth(t) == (t + tz) \div TicksPerMonth

\* date.toISOString().slice(0, 7): the month of an instant in UTC.
IsoMonth(t) == t \div TicksPerMonth

\* new Date(year, month, 1): local 00:00 of the first day of month m.
FirstOfMonth(m) == m * TicksPerMonth - tz

\* new Date(year, month + 1, 0): day 0 of the next month, which is local
\* 00:00 of the last day of month m.
DayZeroOfNext(m) == (m + 1) * TicksPerMonth - 2 - tz

\* -------------------------------------------------------------- collections

\* Plan.findOne({ _id, userId })
FindPlan(id, userId) == {p \in plans : p.id = id /\ p.userId = userId}

\* populate('plan'): the referenced plan document, none when it is gone.
PlanOf(c) == {p \in plans : p.id = c.plan}

\* planSchema.methods.getMonthlyPrice
getMonthlyPrice(p) ==
    CASE p.billingCycle = "monthly"   -> Num(p.price)
      [] p.billingCycle = "quarterly" -> Frac(p.price, 3)
      [] p.billingCycle = "yearly"    -> Frac(p.price, 12)
      [] OTHER                        -> Num(p.price)

\* POST /api/plans.  A request the handler rejects changes nothing.
CreatePlan(userId, name, price, cycle) ==
    /\ ~\E p \in plans : p.name = name /\ p.userId = userId
    /\ plans' = plans \cup {[id |-> nextPlan, userId |-> userId,
                             name |-> name, price |-> price,
                             billingCycle |-> cycle]}
    /\ nextPlan' = nextPlan + 1
    /\ writes' = writes + 1
    /\ UNCHANGED <<now, tz, customers, nextCustomer, cache, req, started,
                   cleared, monthStart, payments>>

\* PUT /api/plans/:id: the plan is looked up under the account, a changed
\* name must be free within the account, and the plan is then updated by
\* its id with the request body as it came.
UpdatePlan(userId, id, body) ==
    /\ LET found == FindPlan(id, userId)
       IN  /\ found # {}
           /\ LET plan == CHOOSE x \in found : TRUE
              IN  /\ ("name" \in DOMAIN body /\ body.name # plan.name)
                        => ~\E o \in plans : /\ o.name = body.name
                                             /\ o.userId = userId
                                             /\ o.id # plan.id
                  /\ plans' = (plans \ {plan}) \cup
                                 {[f \in DOMAIN plan |->
                                     IF f \in DOMAIN body THEN body[f]
                                     ELSE plan[f]]}
    /\ writes' = writes + 1
    /\ UNCHANGED <<now, tz, customers, nextCustomer, nextPlan, cache, req,
                   started, cleared, monthStart, payments>>

\* DELETE /api/plans/:id
DeletePlan(userId, id) ==
    /\ FindPlan(id, userId) # {}
    /\ ~\E c \in customers :
           c.plan = id /\ c.userId = userId /\ c.status = "active"
    /\ plans' = {p \in plans : p.id # id}
    /\ writes' = writes + 1
    /\ UNCHANGED <<now, tz, customers, nextCustomer, nextPlan, cache, req,
                   started, cleared, monthStart, payments>>

\* POST /api/customers
CreateCustomer(userId, email, plan, status, cost) ==
    /\ FindPlan(plan, userId) # {}
    /\ ~\E c \in customers : c.email = email /\ c.userId = userId
    /\ customers' = customers \cup
           {[id |-> nextCustomer, userId |-> userId, email |-> email,
             plan |-> plan, status |-> status,
             subscriptionDate |-> now, churnDate |-> NoDate,
             acquisitionCost |-> cost]}
    /\ nextCustomer' = nextCustomer + 1
    /\ writes' = writes + 1
    /\ UNCHANGED <<now, tz, plans, nextPlan, cache, req, started, cleared,
                   monthStart, payments>>

\* POST /api/customers up to `await customer.save()`: the plan and the email
\* have been looked up and the document built (its subscriptionDate is the
\* schema's default, the current time); the request is in flight.
CheckCustomer(userId, email, plan, status, cost) ==
    /\ req = [op |-> "none"]
    /\ FindPlan(plan, userId) # {}
    /\ ~\E c \in customers : c.email = email /\ c.userId = userId
    /\ req' = [op |-> "createCustomer",
               doc |-> [userId |-> userId, email |-> email, plan |-> plan,
                        status |-> status, subscriptionDate |-> now,
                        churnDate |-> NoDate, acquisitionCost |-> cost]]
    /\ UNCHANGED <<now, tz, customers, plans, nextCustomer, nextPlan, writes,
                   cache, started, cleared, monthStart, payments>>

\* POST /api/customers from `await customer.save()` on: the document built
\* is inserted under a fresh _id and the request answered 201.
SaveCustomer ==
    /\ req.op = "createCustomer"
    /\ customers' = customers \cup
           {[f \in DOMAIN req.doc \cup {"id"} |->
               IF f = "id" THEN nextCustomer ELSE req.doc[f]]}
    /\ nextCustomer' = nextCustomer + 1
    /\ writes' = writes + 1
    /\ req' = [op |-> "none"]
    /\ UNCHANGED <<now, tz, plans, nextPlan, cache, started, cleared,
                   monthStart, payments>>

\* The bodies a customer update is sent with: any of status, plan, email.
UpdateBodies(planIds) ==
    LET S == [status : Statuses]
        P == [plan : planIds]
        E == [email : Emails]
    IN  S \cup P \cup E \cup [status : Statuses, plan : planIds]

\* const updateData = { ...req.body }, with churnDate set to the current
\* time when the status changes to churned.
UpdateData(c, body) ==
    IF "status" \in DOMAIN body /\ body.status = "churned"
                                /\ c.status # "churned"
    THEN [f \in DOMAIN body \cup {"churnDate"} |->
            IF f = "churnDate" THEN now ELSE body[f]]
    ELSE body

\* The document after findByIdAndUpdate(id, updateData): the fields the
\* update names are replaced, the others kept.
ApplyUpdate(c, updateData) ==
    [f \in DOMAIN c |-> IF f \in DOMAIN updateData THEN updateData[f] ELSE c[f]]

\* PUT /api/customers/:id
UpdateCustomer(userId, id, body) ==
    /\ LET found == {c \in customers : c.id = id /\ c.userId = userId}
       IN  /\ found # {}
           /\ LET c == CHOOSE x \in found : TRUE
                  updateData == UpdateData(c, body)
              IN  /\ "plan" \in DOMAIN updateData
                        => FindPlan(updateData.plan, userId) # {}
                  /\ ("email" \in DOMAIN updateData
                        /\ updateData.email # c.email)
                        => ~\E o \in customers : /\ o.email = updateData.email
                                                 /\ o.userId = userId
                                                 /\ o.id # c.id
                  /\ customers' = (customers \ {c}) \cup
                                     {ApplyUpdate(c, updateData)}
    /\ writes' = writes + 1
    /\ UNCHANGED <<now, tz, plans, nextCustomer, nextPlan, cache, req, started,
                   cleared, monthStart, payments>>

\* DELETE /api/customers/:id
DeleteCustomer(userId, id) ==
    /\ \E c \in customers : c.id = id /\ c.userId = userId
    /\ customers' = {c \in customers : ~(c.id = id /\ c.userId = userId)}
    /\ writes' = writes + 1
    /\ UNCHANGED <<now, tz, plans, nextCustomer, nextPlan, cache, req, started,
                   cleared, monthStart, payments>>

\* POST /api/payments: the customer and the plan must be the account's; the
\* payment is saved with the amount of the body and the schema's defaults,
\* refundAmount 0 and refundDate null.  (No payment is deleted here, so the
\* number of payments gives the next fresh _id.)
CreatePayment(userId, customer, plan, amount) ==
    /\ \E c \in customers : c.id = customer /\ c.userId = userId
    /\ FindPlan(plan, userId) # {}
    /\ payments' = payments \cup
           {[id |-> Cardinality(payments) + 1, userId |-> userId,
             customer |-> customer, plan |-> plan, amount |-> amount,
             refundAmount |-> 0, refundDate |-> NoDate]}
    /\ writes' = writes + 1
    /\ UNCHANGED <<now, tz, customers, plans, nextCustomer, nextPlan, cache,
                   req, started, cleared, monthStart>>

\* const updateData = { ...req.body }, with refundDate set to the current
\* time when a refund amount above 0 is sent.
PaymentUpdateData(body) ==
    IF "refundAmount" \in DOMAIN body /\ body.refundAmount > 0
    THEN [f \in DOMAIN body \cup {"refundDate"} |->
            IF f = "refundDate" THEN now ELSE body[f]]
    ELSE body

\* PUT /api/payments/:id: the payment is looked up under the account; a
\* refund amount above the amount the payment has in the database is
\* answered 400; otherwise the fields sent are written.
UpdatePayment(userId, id, body) ==
    /\ LET found == {p \in payments : p.id = id /\ p.userId = userId}
       IN  /\ found # {}
           /\ LET payment == CHOOSE x \in found : TRUE
                  updateData == PaymentUpdateData(body)
              IN  /\ ~("refundAmount" \in DOMAIN updateData
                         /\ updateData.refundAmount # 0
                         /\ updateData.refundAmount > payment.amount)
                  /\ payments' = (payments \ {payment}) \cup
                                    {ApplyUpdate(payment, updateData)}
    /\ writes' = writes + 1
    /\ UNCHANGED <<now, tz, customers, plans, nextCustomer, nextPlan, cache,
                   req, started, cleared, monthStart>>

\* The history of who was active when the month began; no handler and
\* no method of the service reads it.
MonthStartAfter(t) ==
    IF LocalMonth(t) # LocalMonth(now)
    THEN {c.id : c \in {x \in customers : x.status = "active"}}
    ELSE monthStart

\* The passage of time.
Tick ==
    /\ now < MaxTime
    /\ now' = now + 1
    /\ UNCHANGED <<tz, customers, plans, nextCustomer, nextPlan, writes, cache,
                   req, started, cleared, monthStart, payments>>

\* The passage of time, the history of the month's start kept.
TickRecording ==
    /\ now < MaxTime
    /\ now' = now + 1
    /\ monthStart' = MonthStartAfter(now + 1)
    /\ UNCHANGED <<tz, customers, plans, nextCustomer, nextPlan, writes, cache,
                   req, started, cleared, payments>>

\* ----------------------------------------------------------- metrics service

\* this.cacheTimeout = 5 * 60 * 1000, in milliseconds
cacheTimeout == 5 * 60 * 1000

\* The cached keys: `${metric}_${userId}_${date.toISOString().slice(0, 7)}`
CacheKey(metric, userId, date) == <<metric, userId, IsoMonth(date)>>

\* A faulty lookup: entries expire at half the time-to-live.
IsCacheHitHalfLife(key) ==
    /\ key \in DOMAIN cache
    /\ (now - cache[key].timestamp) * TickMs * 2 < cacheTimeout

\* A faulty lookup: an entry exactly as old as the time-to-live still
\* answers.
IsCacheHitInclusive(key) ==
    /\ key \in DOMAIN cache
    /\ (now - cache[key].timestamp) * TickMs <= cacheTimeout

\* cached && Date.now() - cached.timestamp < this.cacheTimeout
IsCacheHit(key) ==
    /\ key \in DOMAIN cache
    /\ (now - cache[key].timestamp) * TickMs < cacheTimeout

\* A faulty query: the filter on userId left out.
ActiveUpToAnyAccount(userId, t) ==
    {c \in customers : c.status = "active" /\ c.subscriptionDate <= t}

\* Customer.find({ userId, status: 'active', subscriptionDate: { $lte: t } })
ActiveUpTo(userId, t) ==
    {c \in customers : /\ c.userId = userId
                       /\ c.status = "active"
                       /\ c.subscriptionDate <= t}

\* customer.plan.getMonthlyPrice() throws when populate found no plan.
HasMissingPlan(S) == \E c \in S : PlanOf(c) = {}

\* activeCustomers.reduce((total, customer) => total + monthlyPrice, 0)
SumMonthlyPrice(S) ==
    SumOver(S, [c \in S |-> getMonthlyPrice(CHOOSE p \in PlanOf(c) : TRUE)])

\* A faulty previous MRR: bounded by prevMonth, the first day of the
\* month before, not by prevMonthEnd.
getPreviousMRRToStart(userId, date) ==
    SumMonthlyPrice(ActiveUpTo(userId, FirstOfMonth(LocalMonth(date) - 1)))

\* getPreviousMRR(userId, currentDate)
getPreviousMRR(userId, date) ==
    SumMonthlyPrice(ActiveUpTo(userId, DayZeroOfNext(LocalMonth(date) - 1)))

\* The queries of calculateMRR's compute function meet a missing plan.
MRRThrows(userId, date) ==
    \/ HasMissingPlan(ActiveUpTo(userId, DayZeroOfNext(LocalMonth(date))))
    \/ HasMissingPlan(ActiveUpTo(userId, DayZeroOfNext(LocalMonth(date) - 1)))

\* The compute function of calculateMRR
ComputeMRR(userId, date) ==
    [current  |-> SumMonthlyPrice(
                      ActiveUpTo(userId, DayZeroOfNext(LocalMonth(date)))),
     previous |-> getPreviousMRR(userId, date),
     growth   |-> Num(0)]

\* calculateARR: the mrrData it awaited, times twelve
calculateARR(mrrData) ==
    [current  |-> NumMul(mrrData.current, Num(12)),
     previous |-> NumMul(mrrData.previous, Num(12)),
     growth   |-> mrrData.growth]

\* Customer.countDocuments({ userId, status: 'active',
\*                           subscriptionDate: { $lt: start } })
CountActiveBefore(userId, start) ==
    Cardinality({c \in customers : /\ c.userId = userId
                                   /\ c.status = "active"
                                   /\ c.subscriptionDate < start})

\* Customer.countDocuments({ userId, status: 'churned',
\*                           churnDate: { $gte: start, $lte: end } })
\* (a null churnDate matches no range)
CountChurnedIn(userId, start, end) ==
    Cardinality({c \in customers : /\ c.userId = userId
                                   /\ c.status = "churned"
                                   /\ c.churnDate # NoDate
                                   /\ c.churnDate >= start
                                   /\ c.churnDate <= end})

\* A faulty rate: the division without its zero guard.
ChurnRateUnguarded(churned, atStart) ==
    NumMul(Frac(churned, atStart), Num(100))

\* customersAtStart > 0 ? (churnedCustomers / customersAtStart) * 100 : 0
ChurnRate(churned, atStart) ==
    IF atStart > 0 THEN NumMul(Frac(churned, atStart), Num(100)) ELSE Num(0)

\* A faulty growth: the change as a percentage of the previous rate.
ChurnGrowthPercent(churnRate, prevChurnRate) ==
    IF IsZero(prevChurnRate) THEN Num(0)
    ELSE NumMul(NumDiv(NumSub(churnRate, prevChurnRate), prevChurnRate),
                Num(100))

\* growth: churnRate - prevChurnRate
ChurnGrowth(churnRate, prevChurnRate) == NumSub(churnRate, prevChurnRate)

\* prevMonth = new Date(year, month - 1, 1)
PrevMonthStart(date) == FirstOfMonth(LocalMonth(date) - 1)

\* prevMonthEnd = new Date(year, month, 0)
PrevMonthEnd(date) == DayZeroOfNext(LocalMonth(date) - 1)

\* The compute function of calculateChurnRate
ComputeChurn(userId, date) ==
    LET startOfMonth == FirstOfMonth(LocalMonth(date))
        endOfMonth   == DayZeroOfNext(LocalMonth(date))
        churnRate == ChurnRate(CountChurnedIn(userId, startOfMonth, endOfMonth),
                               CountActiveBefore(userId, startOfMonth))
        prevChurnRate ==
            ChurnRate(CountChurnedIn(userId, PrevMonthStart(date),
                                     PrevMonthEnd(date)),
                      CountActiveBefore(userId, PrevMonthStart(date)))
    IN  [current  |-> churnRate,
         previous |-> prevChurnRate,
         growth   |-> ChurnGrowth(churnRate, prevChurnRate)]

\* Customer.find({ userId, status: 'active' })
AllActive(userId) ==
    {c \in customers : c.userId = userId /\ c.status = "active"}

\* activeCustomers.length > 0 ? totalRevenue / activeCustomers.length : 0
AvgRevenuePerUser(S) ==
    IF Cardinality(S) > 0
    THEN NumDiv(SumMonthlyPrice(S), Num(Cardinality(S)))
    ELSE Num(0)

\* monthlyChurnRate > 0 ? avgRevenuePerUser / monthlyChurnRate : 0
LTVOf(avgRevenuePerUser, monthlyChurnRate) ==
    IF IsPositive(monthlyChurnRate)
    THEN NumDiv(avgRevenuePerUser, monthlyChurnRate)
    ELSE Num(0)

\* A faulty lifetime value: the churn percentage taken as the monthly
\* churn rate, not divided by 100.
ComputeLTVByPercent(userId, churnData) ==
    [current  |-> LTVOf(AvgRevenuePerUser(AllActive(userId)),
                        churnData.current),
     previous |-> Num(0),
     growth   |-> Num(0)]

\* The compute function of calculateLTV, once churnData has been awaited
ComputeLTV(userId, churnData) ==
    [current  |-> LTVOf(AvgRevenuePerUser(AllActive(userId)),
                        NumDiv(churnData.current, Num(100))),
     previous |-> Num(0),
     growth   |-> Num(0)]

\* Customer.find({ userId, subscriptionDate: { $gte: start, $lte: end } })
NewCustomers(userId, start, end) ==
    {c \in customers : /\ c.userId = userId
                       /\ c.subscriptionDate >= start
                       /\ c.subscriptionDate <= end}

\* newCustomers.length > 0 ? totalAcquisitionCost / newCustomers.length : 0
CACOf(S) ==
    IF Cardinality(S) > 0
    THEN NumDiv(SumOver(S, [c \in S |-> Num(c.acquisitionCost)]),
                Num(Cardinality(S)))
    ELSE Num(0)

\* A faulty acquisition cost: last month's cost reported as previous,
\* with the growth over it.
ComputeCACWithPrevious(userId, date) ==
    LET cur  == CACOf(NewCustomers(userId, FirstOfMonth(LocalMonth(date)),
                                   DayZeroOfNext(LocalMonth(date))))
        prev == CACOf(NewCustomers(userId, PrevMonthStart(date),
                                   PrevMonthEnd(date)))
    IN  [current |-> cur, previous |-> prev, growth |-> NumSub(cur, prev)]

\* The compute function of calculateCAC
ComputeCAC(userId, date) ==
    [current  |-> CACOf(NewCustomers(userId, FirstOfMonth(LocalMonth(date)),
                                     DayZeroOfNext(LocalMonth(date)))),
     previous |-> Num(0),
     growth   |-> Num(0)]

\* A faulty growth: the division without its zero guard.
calculateGrowthUnguarded(current, previous) ==
    NumMul(NumDiv(NumSub(current, previous), previous), Num(100))

\* getAllMetrics' calculateGrowth(current, previous)
calculateGrowth(current, previous) ==
    IF IsZero(previous) THEN Num(0)
    ELSE NumMul(NumDiv(NumSub(current, previous), previous), Num(100))

\* { ...metric, growth: calculateGrowth(metric.current, metric.previous) }
WithGrowth(m) ==
    [current  |-> m.current,
     previous |-> m.previous,
     growth   |-> calculateGrowth(m.current, m.previous)]

\* ------------------------------------------------------------------ requests

\* A metrics request runs its calls of getCachedOrCompute as tasks.  A task
\* is idle (not called), read (the cache missed and the compute function's
\* queries are pending), store (the queries have answered), done (the call
\* has returned data) or failed (the call has thrown).  The task ltv waits
\* in waitChurn and waitMrr for the calls its compute function awaits.
NoRequest == [op |-> "none"]

NoData == [current |-> Num(0), previous |-> Num(0), growth |-> Num(0)]

Idle == [pc |-> "idle", hit |-> FALSE, data |-> NoData]

TaskNames == {"mrr", "arr", "churn", "ltv", "cac", "ltvChurn", "ltvMrr"}

Ops == {"mrr", "arr", "churn", "ltv", "cac", "all"}

\* The calls a route makes: one calculate*, or getAllMetrics' Promise.all.
TopTasks(op) ==
    IF op = "all" THEN {"mrr", "arr", "churn", "ltv", "cac"} ELSE {op}

\* The metric a task computes; its cache key starts with it.
MetricOf(name) ==
    CASE name \in {"mrr", "arr", "ltvMrr"} -> "mrr"
      [] name \in {"churn", "ltvChurn"}    -> "churn"
      [] name = "ltv"                      -> "ltv"
      [] name = "cac"                      -> "cac"

KeyOf(name, r) == CacheKey(MetricOf(name), r.userId, r.date)

\* getCachedOrCompute up to its await: the cached data on a hit, and on a
\* miss the compute function called, its queries sent.
Called(name, r) ==
    IF IsCacheHit(KeyOf(name, r))
    THEN [pc |-> "done", hit |-> TRUE, data |-> cache[KeyOf(name, r)].data]
    ELSE [pc |-> "read", hit |-> FALSE, data |-> NoData]

\* calculateLTV's compute function from `await this.calculateMRR` on, with
\* churnData at hand: it waits for that call unless the cache answers, and
\* then sends its own query.
LtvAwaitMrr(t, r, churnData) ==
    LET m == Called("ltvMrr", r)
    IN  [t EXCEPT !["ltvMrr"] = m,
                  !["ltv"] = [pc   |-> IF m.pc = "done" THEN "read"
                                                        ELSE "waitMrr",
                              hit  |-> FALSE,
                              data |-> churnData]]

\* calculateLTV's compute function from its start: it awaits
\* calculateChurnRate first.
LtvAwaitChurn(t, r) ==
    LET c == Called("ltvChurn", r)
    IN  IF c.pc = "done"
        THEN LtvAwaitMrr([t EXCEPT !["ltvChurn"] = c], r, c.data)
        ELSE [t EXCEPT !["ltvChurn"] = c,
                       !["ltv"] = [pc |-> "waitChurn", hit |-> FALSE,
                                   data |-> NoData]]

\* The tasks of a request once its calls have run up to their first await.
InitialTasks(r) ==
    LET t0 == [n \in TaskNames |->
                 IF n \in TopTasks(r.op) THEN Called(n, r) ELSE Idle]
    IN  IF "ltv" \in TopTasks(r.op) /\ t0["ltv"].pc = "read"
        THEN LtvAwaitChurn(t0, r)
        ELSE t0

\* The tasks whose getCachedOrCompute call has been made.
CalledTasks(t) == {n \in TaskNames : t[n].pc # "idle"}

\* The tasks called in the step from tasks t0 to tasks t1.
NewCalls(t0, t1) == CalledTasks(t1) \ CalledTasks(t0)

\* A route of /api/metrics calls the service for req.userId and a date.
StartRequest(op, userId, date) ==
    /\ req = NoRequest
    /\ started' = started + 1
    /\ LET r == [op |-> op, userId |-> userId, date |-> date]
       IN  /\ req' = [op |-> op, userId |-> userId, date |-> date,
                      t |-> InitialTasks(r)]
           /\ cleared' = cleared \
                  {KeyOf(n, r) : n \in CalledTasks(InitialTasks(r))}
    /\ UNCHANGED <<now, tz, customers, plans, nextCustomer, nextPlan, writes,
                   cache, monthStart, payments>>

\* The compute function of a task throws on the database as it is.
Throws(name) ==
    CASE MetricOf(name) = "mrr" -> MRRThrows(req.userId, req.date)
      [] name = "ltv"           -> HasMissingPlan(AllActive(req.userId))
      [] OTHER                  -> FALSE

\* A faulty computation: calculateLTV asking for the churn rate of the
\* current month, whatever the reference date.
ComputedChurnOfNow(name) ==
    CASE MetricOf(name) = "mrr"   -> ComputeMRR(req.userId, req.date)
      [] name = "ltvChurn"        -> ComputeChurn(req.userId, now)
      [] name = "churn"           -> ComputeChurn(req.userId, req.date)
      [] name = "ltv"             -> ComputeLTV(req.userId, req.t["ltv"].data)
      [] name = "cac"             -> ComputeCAC(req.userId, req.date)

\* A faulty computation, the calculations sharing state: the acquisition
\* cost comes out as zeroes while the revenue is still being summed.
ComputedInOrder(name) ==
    CASE MetricOf(name) = "mrr"   -> ComputeMRR(req.userId, req.date)
      [] MetricOf(name) = "churn" -> ComputeChurn(req.userId, req.date)
      [] name = "ltv"             -> ComputeLTV(req.userId, req.t["ltv"].data)
      [] name = "cac"             -> IF req.t["mrr"].pc = "read" THEN NoData
                                     ELSE ComputeCAC(req.userId, req.date)

\* What the compute function of a task returns on the database as it is.
Computed(name) ==
    CASE MetricOf(name) = "mrr"   -> ComputeMRR(req.userId, req.date)
      [] MetricOf(name) = "churn" -> ComputeChurn(req.userId, req.date)
      [] name = "ltv"             -> ComputeLTV(req.userId, req.t["ltv"].data)
      [] name = "cac"             -> ComputeCAC(req.userId, req.date)

\* A rejected call rejects the compute function awaiting it.
Failed(t, name) ==
    IF name \in {"ltvChurn", "ltvMrr"}
    THEN [t EXCEPT ![name].pc = "failed", !["ltv"].pc = "failed"]
    ELSE [t EXCEPT ![name].pc = "failed"]

\* The errors a query of the persistence layer rejects with.
DbErrors == {"MongoNetworkError", "MongoServerError"}

\* A faulty failure: the compute function whose query was rejected returns
\* zeroes, and the function awaiting it goes on.
FailedWithDefault(t, name, error) ==
    LET t1 == [t EXCEPT ![name].pc = "done", ![name].data = NoData]
    IN  CASE name = "ltvChurn" -> [t1 EXCEPT !["ltvMrr"].pc = "read"]
          [] name = "ltvMrr"   -> [t1 EXCEPT !["ltv"].pc = "read"]
          [] OTHER             -> t1

\* A query of the task's compute function rejects with an error: nothing
\* catches it, so `await computeFn()` rejects with it, and so does the
\* compute function of calculateLTV when it awaits the call.
FailedWith(t, name, error) ==
    IF name \in {"ltvChurn", "ltvMrr"}
    THEN [t EXCEPT ![name].pc = "failed", ![name].data = [error |-> error],
                   !["ltv"].pc = "failed", !["ltv"].data = [error |-> error]]
    ELSE [t EXCEPT ![name].pc = "failed", ![name].data = [error |-> error]]

\* A faulty failure: the rejection is stored under the key of the call.
FailTaskCaching(name, error) ==
    /\ req # NoRequest
    /\ req.t[name].pc = "read"
    /\ req' = [req EXCEPT !.t = FailedWith(@, name, error)]
    /\ cache' = [k \in DOMAIN cache \cup {KeyOf(name, req)} |->
                   IF k = KeyOf(name, req)
                   THEN [data |-> [error |-> error], timestamp |-> now]
                   ELSE cache[k]]
    /\ UNCHANGED <<now, tz, customers, plans, nextCustomer, nextPlan, writes,
                   started, cleared, monthStart, payments>>

\* The persistence layer rejects a query of a task's compute function.
FailTask(name, error) ==
    /\ req # NoRequest
    /\ req.t[name].pc = "read"
    /\ req' = [req EXCEPT !.t = FailedWith(@, name, error)]
    /\ UNCHANGED <<now, tz, customers, plans, nextCustomer, nextPlan, writes,
                   cache, started, cleared, monthStart, payments>>

\* The database answers the queries of a task's compute function.
ReadTask(name) ==
    /\ req # NoRequest
    /\ req.t[name].pc = "read"
    /\ req' = [req EXCEPT !.t =
                 IF Throws(name) THEN Failed(@, name)
                 ELSE [@ EXCEPT ![name].pc = "store",
                                ![name].data = Computed(name)]]
    /\ UNCHANGED <<now, tz, customers, plans, nextCustomer, nextPlan, writes,
                   cache, started, cleared, monthStart, payments>>

\* this.cache.set(key, { data, timestamp: Date.now() })
CacheSet(key, data) ==
    [k \in DOMAIN cache \cup {key} |->
       IF k = key THEN [data |-> data, timestamp |-> now] ELSE cache[k]]

\* The tasks once the call of a task has returned: the function awaiting
\* the call goes on.  (The call has stored under its own key, so the key
\* the awaiting function looks up next reads as before.)
Returns(t, name, data) ==
    LET t1 == [t EXCEPT ![name].pc = "done", ![name].data = data]
    IN  CASE name = "ltvChurn" -> LtvAwaitMrr(t1, req, data)
          [] name = "ltvMrr"   -> [t1 EXCEPT !["ltv"].pc = "read"]
          [] OTHER             -> t1

\* The compute function of a task has returned: getCachedOrCompute stores
\* the data and returns it.
StoreTask(name) ==
    /\ req # NoRequest
    /\ req.t[name].pc = "store"
    /\ cache' = CacheSet(KeyOf(name, req), req.t[name].data)
    /\ req' = [req EXCEPT !.t = Returns(@, name, req.t[name].data)]
    /\ cleared' = cleared \ {KeyOf(n, req) : n \in NewCalls(req.t, req'.t)}
    /\ UNCHANGED <<now, tz, customers, plans, nextCustomer, nextPlan, writes,
                   started, monthStart, payments>>

\* ReadTask and StoreTask with nothing in between: the answer of the
\* database arrives at once.
CompleteTask(name) ==
    /\ req # NoRequest
    /\ req.t[name].pc = "read"
    /\ IF Throws(name)
       THEN /\ req' = [req EXCEPT !.t = Failed(@, name)]
            /\ UNCHANGED <<cache, cleared>>
       ELSE /\ cache' = CacheSet(KeyOf(name, req), Computed(name))
            /\ req' = [req EXCEPT !.t = Returns(@, name, Computed(name))]
            /\ cleared' = cleared \ {KeyOf(n, req) : n \in NewCalls(req.t, req'.t)}
    /\ UNCHANGED <<now, tz, customers, plans, nextCustomer, nextPlan, writes,
                   started, monthStart, payments>>

\* The same call made by a concurrent request of the account for the same
\* date returns: getCachedOrCompute stores what its compute function read.
ConcurrentStore(name) ==
    /\ req # NoRequest
    /\ name \in {"mrr", "churn", "cac"}
    /\ ~Throws(name)
    /\ cache' = CacheSet(KeyOf(name, req), Computed(name))
    /\ UNCHANGED <<now, tz, customers, plans, nextCustomer, nextPlan, writes,
                   req, started, cleared, monthStart, payments>>

\* Every call of the request has returned or thrown.
Settled(r) ==
    /\ r # NoRequest
    /\ \A n \in TaskNames : r.t[n].pc \in {"idle", "done", "failed"}

\* Some call of the request has thrown: the route answers 500.
Rejected(r) == \E n \in TopTasks(r.op) : r.t[n].pc = "failed"

\* getAllMetrics' return value
getAllMetrics(t) ==
    [mrr   |-> WithGrowth(t["mrr"].data),
     arr   |-> WithGrowth(calculateARR(t["arr"].data)),
     churn |-> WithGrowth(t["churn"].data),
     ltv   |-> WithGrowth(t["ltv"].data),
     cac   |-> WithGrowth(t["cac"].data)]

\* What a single calculate* call returns.
Returned(r) ==
    IF r.op = "arr" THEN calculateARR(r.t["arr"].data) ELSE r.t[r.op].data

\* The route sends its answer: res.json(...) or status 500.
Respond ==
    /\ Settled(req)
    /\ req' = NoRequest
    /\ UNCHANGED <<now, tz, customers, plans, nextCustomer, nextPlan, writes,
                   cache, started, cleared, monthStart, payments>>

\* The cached key of getHistoricalData: `historical_${userId}_${months}`
HistoricalKey(userId, months) == <<"historical", userId, months>>

\* new Date(currentDate.getFullYear(), currentDate.getMonth() - i, 1)
HistoryDate(currentDate, i) == FirstOfMonth(LocalMonth(currentDate) - i)

\* The calls of getAllMetrics(userId, date), run to their first await.
AllTasksAt(userId, date) ==
    InitialTasks([op |-> "all", userId |-> userId, date |-> date])

\* GET /api/metrics/historical: getHistoricalData(userId, months) up to its
\* first await.  On a hit the cached sequence is returned; on a miss the
\* compute function notes the current date and calls getAllMetrics for the
\* oldest month.  The request keeps the months asked for, the current date
\* noted (start), the date of the month being computed (date) and the
\* entries pushed so far (out).
StartHistorical(userId, months) ==
    /\ req = NoRequest
    /\ started' = started + 1
    /\ IF IsCacheHit(HistoricalKey(userId, months))
       THEN req' = [op |-> "historical", userId |-> userId, months |-> months,
                    start |-> now, date |-> now, phase |-> "done",
                    hit |-> TRUE,
                    out |-> cache[HistoricalKey(userId, months)].data,
                    t |-> [n \in TaskNames |-> Idle]]
       ELSE req' = [op |-> "historical", userId |-> userId, months |-> months,
                    start |-> now, date |-> HistoryDate(now, months - 1),
                    phase |-> "loop", hit |-> FALSE, out |-> <<>>,
                    t |-> AllTasksAt(userId, HistoryDate(now, months - 1))]
    /\ cleared' = (cleared \ {HistoricalKey(userId, months)})
                     \ {KeyOf(n, req') : n \in CalledTasks(req'.t)}
    /\ UNCHANGED <<now, tz, customers, plans, nextCustomer, nextPlan, writes,
                   cache, monthStart, payments>>

\* data.push({ month: date.toISOString().slice(0, 7), date, ...metrics })
HistoryEntry(date, metrics) ==
    [month |-> IsoMonth(date), date |-> date,
     mrr |-> metrics.mrr, arr |-> metrics.arr, churn |-> metrics.churn,
     ltv |-> metrics.ltv, cac |-> metrics.cac]

\* The loop of getHistoricalData after `await this.getAllMetrics`: a failed
\* call rejects the whole; otherwise the entry of the month is pushed and
\* either getAllMetrics is called for the next month or, after the last,
\* the sequence is stored in the cache and returned.
HistoricalStep ==
    /\ req # NoRequest
    /\ req.op = "historical"
    /\ req.phase = "loop"
    /\ Settled(req)
    /\ IF \E n \in TopTasks("all") : req.t[n].pc = "failed"
       THEN /\ req' = [req EXCEPT !.phase = "failed"]
            /\ UNCHANGED <<cache, cleared>>
       ELSE LET out == Append(req.out,
                              HistoryEntry(req.date, getAllMetrics(req.t)))
                next == HistoryDate(req.start, req.months - 1 - Len(out))
            IN  IF Len(out) = req.months
                THEN /\ cache' = CacheSet(HistoricalKey(req.userId, req.months),
                                          out)
                     /\ req' = [req EXCEPT !.out = out, !.phase = "done"]
                     /\ UNCHANGED cleared
                ELSE /\ req' = [req EXCEPT !.out = out, !.date = next,
                                           !.t = AllTasksAt(req.userId, next)]
                     /\ cleared' = cleared \
                            {KeyOf(n, req') : n \in CalledTasks(req'.t)}
                     /\ UNCHANGED cache
    /\ UNCHANGED <<now, tz, customers, plans, nextCustomer, nextPlan, writes,
                   started, monthStart, payments>>

\* The historical route sends its answer: res.json(...) or status 500.
RespondHistorical ==
    /\ req # NoRequest
    /\ req.op = "historical"
    /\ req.phase \in {"done", "failed"}
    /\ req' = NoRequest
    /\ UNCHANGED <<now, tz, customers, plans, nextCustomer, nextPlan, writes,
                   cache, started, cleared, monthStart, payments>>

\* The cached key of getCustomerGrowth: `customer_growth_${userId}_${months}`
CustomerGrowthKey(userId, months) == <<"customer_growth", userId, months>>

\* Customer.countDocuments({ userId, subscriptionDate: { $lte: endOfMonth } })
CountSubscribedUpTo(userId, endOfMonth) ==
    Cardinality({c \in customers : /\ c.userId = userId
                                   /\ c.subscriptionDate <= endOfMonth})

\* Customer.countDocuments({ userId, status: 'active',
\*                           subscriptionDate: { $lte: endOfMonth } })
CountActiveUpTo(userId, endOfMonth) ==
    Cardinality({c \in customers : /\ c.userId = userId
                                   /\ c.status = "active"
                                   /\ c.subscriptionDate <= endOfMonth})

\* Customer.countDocuments({ userId, status: 'churned',
\*                           churnDate: { $lte: endOfMonth } })
CountChurnedUpTo(userId, endOfMonth) ==
    Cardinality({c \in customers : /\ c.userId = userId
                                   /\ c.status = "churned"
                                   /\ c.churnDate <= endOfMonth})

\* One pass of the loop of getCustomerGrowth, i months before the month of
\* currentDate: the three counts up to endOfMonth and the entry pushed.
GrowthEntry(userId, currentDate, i) ==
    LET date == FirstOfMonth(LocalMonth(currentDate) - i)
        endOfMonth == DayZeroOfNext(LocalMonth(currentDate) - i)
    IN  [month |-> IsoMonth(date), date |-> date,
         total |-> CountSubscribedUpTo(userId, endOfMonth),
         active |-> CountActiveUpTo(userId, endOfMonth),
         churned |-> CountChurnedUpTo(userId, endOfMonth)]

\* GET /api/metrics/customer-growth: getCustomerGrowth(userId, months) up to
\* its first await.  On a hit the cached sequence is returned; on a miss the
\* compute function notes the current date and starts its loop.
StartCustomerGrowth(userId, months) ==
    /\ req = NoRequest
    /\ started' = started + 1
    /\ IF IsCacheHit(CustomerGrowthKey(userId, months))
       THEN req' = [op |-> "growth", userId |-> userId, months |-> months,
                    start |-> now, phase |-> "done", hit |-> TRUE,
                    out |-> cache[CustomerGrowthKey(userId, months)].data]
       ELSE req' = [op |-> "growth", userId |-> userId, months |-> months,
                    start |-> now, phase |-> "loop", hit |-> FALSE,
                    out |-> <<>>]
    /\ cleared' = cleared \ {CustomerGrowthKey(userId, months)}
    /\ UNCHANGED <<now, tz, customers, plans, nextCustomer, nextPlan, writes,
                   cache, monthStart, payments>>

\* One pass of the loop of getCustomerGrowth: the counts of the next month
\* are awaited and its entry pushed; after the last month the sequence is
\* stored in the cache and returned.
CustomerGrowthStep ==
    /\ req # NoRequest
    /\ req.op = "growth"
    /\ req.phase = "loop"
    /\ LET out == Append(req.out,
                         GrowthEntry(req.userId, req.start,
                                     req.months - 1 - Len(req.out)))
       IN  IF Len(out) = req.months
           THEN /\ cache' = CacheSet(CustomerGrowthKey(req.userId, req.months),
                                     out)
                /\ req' = [req EXCEPT !.out = out, !.phase = "done"]
           ELSE /\ req' = [req EXCEPT !.out = out]
                /\ UNCHANGED cache
    /\ UNCHANGED <<now, tz, customers, plans, nextCustomer, nextPlan, writes,
                   started, cleared, monthStart, payments>>

\* The customer-growth route sends its answer.
RespondCustomerGrowth ==
    /\ req # NoRequest
    /\ req.op = "growth"
    /\ req.phase = "done"
    /\ req' = NoRequest
    /\ UNCHANGED <<now, tz, customers, plans, nextCustomer, nextPlan, writes,
                   cache, started, cleared, monthStart, payments>>

\* A faulty refresh: only the entries past the time-out are removed.
ClearCacheExpired ==
    /\ cache' = [k \in {x \in DOMAIN cache : IsCacheHit(x)} |-> cache[k]]
    /\ cleared' = cleared \cup {x \in DOMAIN cache : ~IsCacheHit(x)}
    /\ UNCHANGED <<now, tz, customers, plans, nextCustomer, nextPlan, writes,
                   req, started, monthStart, payments>>

\* POST /api/metrics/refresh: metricsService.clearCache()
ClearCache ==
    /\ cache' = <<>>
    /\ cleared' = cleared \cup DOMAIN cache
    /\ UNCHANGED <<now, tz, customers, plans, nextCustomer, nextPlan, writes,
                   req, started, monthStart, payments>>

\* ------------------------------------------------------------ specification

TzOffsets == {0}

PlanIds == 1 .. MaxPlans

CustomerIds == 1 .. MaxCustomers

\* The plans on offer: price and billing cycle.
Offers == {<<100, "monthly">>, <<120, "yearly">>}

\* The email of the i-th customer when every customer has one of its own.
OwnEmail(i) == <<"c1@x.io", "c2@x.io", "c3@x.io", "c4@x.io", "c5@x.io">>[i]

Init ==
    /\ now = 0
    /\ tz \in TzOffsets
    /\ customers = {}
    /\ plans = {}
    /\ nextCustomer = 1
    /\ nextPlan = 1
    /\ writes = 0
    /\ cache = <<>>
    /\ req = NoRequest
    /\ started = 0
    /\ cleared = {}
    /\ monthStart = {}
    /\ payments = {}

\* The budgets of the write requests.
MayWrite == writes < MaxWrites

MayCreatePlan == MayWrite /\ nextPlan <= MaxPlans

MayCreateCustomer == MayWrite /\ nextCustomer <= MaxCustomers

\* The customer and plan routes alone, with every body they accept.
NextCrud ==
    \/ Tick
    \/ \E u \in Users, n \in PlanNames, o \in Offers :
           MayCreatePlan /\ CreatePlan(u, n, o[1], o[2])
    \/ \E u \in Users, p \in PlanIds : MayWrite /\ DeletePlan(u, p)
    \/ \E u \in Users, e \in Emails, p \in PlanIds, s \in Statuses,
          a \in AcquisitionCosts :
           MayCreateCustomer /\ CreateCustomer(u, e, p, s, a)
    \/ \E u \in Users, c \in CustomerIds, b \in UpdateBodies(PlanIds) :
           MayWrite /\ UpdateCustomer(u, c, b)
    \/ \E u \in Users, c \in CustomerIds : MayWrite /\ DeleteCustomer(u, c)

SpecCrud == Init /\ [][NextCrud]_vars

\* Requests are still to come and none is in flight.
Preparing == req = NoRequest /\ started < MaxRequests

\* The order in which getAllMetrics makes its calls.
CallOrder == <<"mrr", "arr", "churn", "ltvChurn", "ltvMrr", "ltv", "cac">>

\* Task n is the first, in the order of the calls, whose queries are
\* pending.
IsFirstPending(n) ==
    /\ req # NoRequest
    /\ \E i \in 1 .. Len(CallOrder) :
         /\ CallOrder[i] = n
         /\ req.t[n].pc = "read"
         /\ \A j \in 1 .. (i - 1) : req.t[CallOrder[j]].pc # "read"

\* The metrics routes over a database that customers join and leave.  The
\* database is written between the requests, and it answers the queries of
\* a request in the order they were sent.
Next ==
    \/ Preparing /\ Tick
    \/ \E u \in Users, n \in PlanNames, o \in Offers :
           Preparing /\ MayCreatePlan /\ CreatePlan(u, n, o[1], o[2])
    \/ \E u \in Users, p \in PlanIds, s \in {"active", "trial"},
          a \in AcquisitionCosts :
           Preparing /\ MayCreateCustomer
             /\ CreateCustomer(u, OwnEmail(nextCustomer), p, s, a)
    \/ \E u \in Users, c \in CustomerIds,
          b \in [status : {"active", "churned", "trial"}] :
           Preparing /\ MayWrite /\ UpdateCustomer(u, c, b)
    \/ \E u \in Users, p \in PlanIds : Preparing /\ MayWrite /\ DeletePlan(u, p)
    \/ \E op \in Ops, u \in Users : Preparing /\ StartRequest(op, u, now)
    \/ \E n \in TaskNames : IsFirstPending(n) /\ CompleteTask(n)
    \/ Respond

Spec == Init /\ [][Next]_vars

MayWriteFew == writes < CacheWrites

\* The cache under every interleaving: the queries of a task are answered
\* and its result stored at any later time, while the clock runs, customers
\* are created and the cache is cleared.
NextCache ==
    \/ now < CacheMaxTime /\ Tick
    \/ \E u \in Users, n \in PlanNames :
           MayWriteFew /\ nextPlan <= MaxPlans
             /\ CreatePlan(u, n, 100, "monthly")
    \/ \E u \in Users, p \in PlanIds :
           MayWriteFew /\ nextCustomer <= MaxCustomers
             /\ CreateCustomer(u, OwnEmail(nextCustomer), p, "active", 0)
    \/ \E op \in Ops \ {"all"}, u \in Users :
           started < CacheRequests /\ StartRequest(op, u, now)
    \/ \E n \in TaskNames : ReadTask(n)
    \/ \E n \in TaskNames : StoreTask(n)
    \/ Respond
    \/ ClearCache

SpecCache == Init /\ [][NextCache]_vars

\* getAllMetrics while customers are created: the five calls of its
\* Promise.all are answered in any order, the database written in between.
NextAll ==
    \/ now < CacheMaxTime /\ Tick
    \/ \E u \in Users, n \in PlanNames :
           MayWriteFew /\ nextPlan <= MaxPlans
             /\ CreatePlan(u, n, 100, "monthly")
    \/ \E u \in Users, p \in PlanIds :
           MayWriteFew /\ nextCustomer <= MaxCustomers
             /\ CreateCustomer(u, OwnEmail(nextCustomer), p, "active", 0)
    \/ \E u \in Users : started < MaxRequests /\ StartRequest("all", u, now)
    \/ \E n \in TaskNames : CompleteTask(n)
    \/ Respond

SpecAll == Init /\ [][NextAll]_vars

\* The metrics routes over a persistence layer whose queries may fail; the
\* database is written between the requests.
NextFailure ==
    \/ req = NoRequest /\ now < CacheMaxTime /\ Tick
    \/ \E u \in Users, n \in PlanNames :
           req = NoRequest /\ MayWriteFew /\ nextPlan <= MaxPlans
             /\ CreatePlan(u, n, 100, "monthly")
    \/ \E u \in Users, p \in PlanIds :
           req = NoRequest /\ MayWriteFew /\ nextCustomer <= MaxCustomers
             /\ CreateCustomer(u, OwnEmail(nextCustomer), p, "active", 0)
    \/ \E op \in Ops, u \in Users :
           started < FailureRequests /\ StartRequest(op, u, now)
    \/ \E n \in TaskNames : IsFirstPending(n) /\ CompleteTask(n)
    \/ \E n \in TaskNames, e \in DbErrors : FailTask(n, e)
    \/ Respond

SpecFailure == Init /\ [][NextFailure]_vars

\* getAllMetrics under every interleaving of its calls, and of the stores
\* of a concurrent request, while the clock runs; the database is written
\* between the requests only.
NextInterleave ==
    \/ now < InterleaveMaxTime /\ Tick
    \/ \E u \in Users, n \in PlanNames :
           req = NoRequest /\ MayWriteFew /\ nextPlan <= MaxPlans
             /\ CreatePlan(u, n, 100, "monthly")
    \/ \E u \in Users, p \in PlanIds :
           req = NoRequest /\ MayWriteFew /\ nextCustomer <= MaxCustomers
             /\ CreateCustomer(u, OwnEmail(nextCustomer), p, "active", 60)
    \/ \E u \in Users :
           started < InterleaveRequests /\ StartRequest("all", u, now)
    \/ \E n \in TaskNames : ReadTask(n)
    \/ \E n \in TaskNames : StoreTask(n)
    \/ \E n \in TaskNames : ConcurrentStore(n)
    \/ Respond

SpecInterleave == Init /\ [][NextInterleave]_vars

\* The churn rate, the lifetime value and the history asked for one after
\* another, each served from the cache where it can be, over customers who
\* subscribe when the service starts and churn later; the clock runs
\* between the requests.
NextStale ==
    \/ req = NoRequest /\ now < StaleMaxTime /\ Tick
    \/ \E u \in Users, n \in PlanNames :
           req = NoRequest /\ now = 0 /\ writes < StaleWrites
             /\ nextPlan <= MaxPlans
             /\ CreatePlan(u, n, 100, "monthly")
    \/ \E u \in Users, p \in PlanIds :
           req = NoRequest /\ now = 0 /\ writes < StaleWrites
             /\ nextCustomer <= MaxCustomers
             /\ CreateCustomer(u, OwnEmail(nextCustomer), p, "active", 0)
    \/ \E u \in Users, c \in CustomerIds :
           req = NoRequest /\ writes < StaleWrites
             /\ UpdateCustomer(u, c, [status |-> "churned"])
    \/ \E op \in {"churn", "ltv"}, u \in Users :
           started < StaleRequests /\ StartRequest(op, u, now)
    \/ \E u \in Users : started < StaleRequests /\ StartHistorical(u, 1)
    \/ \E n \in TaskNames : IsFirstPending(n) /\ CompleteTask(n)
    \/ HistoricalStep
    \/ req.op \in Ops /\ Respond
    \/ RespondHistorical

SpecStale == Init /\ [][NextStale]_vars

ChurnCustomerIds == 1 .. ChurnCustomers

\* The churn rate, and the lifetime value that rests on it, over months
\* in which customers subscribe and churn: who was active when a month
\* began is recorded as the clock enters it.
NextChurn ==
    \/ Preparing /\ TickRecording
    \/ \E u \in Users, n \in PlanNames :
           Preparing /\ writes < ChurnWrites /\ nextPlan <= MaxPlans
             /\ CreatePlan(u, n, 100, "monthly")
    \/ \E u \in Users, p \in PlanIds :
           Preparing /\ writes < ChurnWrites /\ nextCustomer <= ChurnCustomers
             /\ CreateCustomer(u, OwnEmail(nextCustomer), p, "active", 0)
    \/ \E u \in Users, c \in ChurnCustomerIds :
           Preparing /\ writes < ChurnWrites
             /\ UpdateCustomer(u, c, [status |-> "churned"])
    \/ \E op \in {"churn", "ltv"}, u \in Users :
           Preparing /\ StartRequest(op, u, now)
    \/ \E n \in TaskNames : CompleteTask(n)
    \/ Respond

SpecChurn == Init /\ [][NextChurn]_vars

\* The time zones of the server: UTC, and one tick east of it.
Zones == {0, 1}

\* The state after construction, on a server in either time zone.
InitZoned ==
    /\ now = 0
    /\ tz \in Zones
    /\ customers = {}
    /\ plans = {}
    /\ nextCustomer = 1
    /\ nextPlan = 1
    /\ writes = 0
    /\ cache = <<>>
    /\ req = NoRequest
    /\ started = 0
    /\ cleared = {}
    /\ monthStart = {}
    /\ payments = {}

\* The history of the metrics asked for over a database that customers
\* join, on a server in either time zone.
NextHistory ==
    \/ Preparing /\ Tick
    \/ \E u \in Users, n \in PlanNames :
           Preparing /\ MayWriteFew /\ nextPlan <= MaxPlans
             /\ CreatePlan(u, n, 100, "monthly")
    \/ \E u \in Users, p \in PlanIds :
           Preparing /\ MayWriteFew /\ nextCustomer <= MaxCustomers
             /\ CreateCustomer(u, OwnEmail(nextCustomer), p, "active", 60)
    \/ \E u \in Users, k \in 1 .. MaxHistory :
           Preparing /\ StartHistorical(u, k)
    \/ \E n \in TaskNames : IsFirstPending(n) /\ CompleteTask(n)
    \/ HistoricalStep
    \/ RespondHistorical

SpecHistory == InitZoned /\ [][NextHistory]_vars

\* The customer growth asked for over a database that customers join and
\* leave.
NextGrowth ==
    \/ Preparing /\ Tick
    \/ \E u \in Users, n \in PlanNames :
           Preparing /\ writes < GrowthWrites /\ nextPlan <= MaxPlans
             /\ CreatePlan(u, n, 100, "monthly")
    \/ \E u \in Users, p \in PlanIds :
           Preparing /\ writes < GrowthWrites /\ nextCustomer <= MaxCustomers
             /\ CreateCustomer(u, OwnEmail(nextCustomer), p, "active", 60)
    \/ \E u \in Users, c \in CustomerIds :
           Preparing /\ writes < GrowthWrites
             /\ UpdateCustomer(u, c, [status |-> "churned"])
    \/ \E u \in Users, k \in 1 .. MaxHistory :
           Preparing /\ StartCustomerGrowth(u, k)
    \/ CustomerGrowthStep
    \/ RespondCustomerGrowth

SpecGrowth == Init /\ [][NextGrowth]_vars

DatedCustomerIds == 1 .. DatedCustomers

\* The metric routes called with a date parameter (?date=...): any instant
\* of the calendar, over a database that customers join and churn from.
NextDated ==
    \/ Preparing /\ Tick
    \/ \E u \in Users, n \in PlanNames, o \in Offers :
           Preparing /\ writes < DatedWrites /\ nextPlan <= MaxPlans
             /\ CreatePlan(u, n, o[1], o[2])
    \/ \E u \in Users, p \in PlanIds, a \in AcquisitionCosts :
           Preparing /\ writes < DatedWrites /\ nextCustomer <= DatedCustomers
             /\ CreateCustomer(u, OwnEmail(nextCustomer), p, "active", a)
    \/ \E u \in Users, c \in DatedCustomerIds :
           Preparing /\ writes < DatedWrites
             /\ UpdateCustomer(u, c, [status |-> "churned"])
    \/ \E op \in {"mrr", "ltv", "cac"}, u \in Users, d \in 0 .. MaxTime :
           Preparing /\ StartRequest(op, u, d)
    \/ \E n \in TaskNames : IsFirstPending(n) /\ CompleteTask(n)
    \/ Respond

SpecDated == Init /\ [][NextDated]_vars

\* Two accounts on the one server and its one cache.
Accounts == {1, 2}

\* The plan an account offers: price and billing cycle.
OfferOf(u) == IF u = 1 THEN <<100, "monthly">> ELSE <<120, "yearly">>

\* Two accounts side by side: each writes its own customers and plans and
\* asks for its own metrics, at any time, also while a request of the
\* other is in flight, and either may refresh the cache.
NextAccounts ==
    \/ now < AccountMaxTime /\ Tick
    \/ \E u \in Accounts, n \in PlanNames :
           writes < AccountWrites /\ nextPlan <= AccountPlans
             /\ CreatePlan(u, n, OfferOf(u)[1], OfferOf(u)[2])
    \/ \E u \in Accounts, p \in 1 .. AccountPlans :
           writes < AccountWrites /\ nextCustomer <= MaxCustomers
             /\ CreateCustomer(u, OwnEmail(nextCustomer), p, "active", 60)
    \/ \E u \in Accounts, c \in CustomerIds :
           writes < AccountWrites
             /\ UpdateCustomer(u, c, [status |-> "churned"])
    \/ \E op \in {"mrr", "ltv"}, u \in Accounts :
           started < AccountRequests /\ StartRequest(op, u, now)
    \/ \E n \in TaskNames : CompleteTask(n)
    \/ Respond
    \/ ClearCache

SpecAccounts == Init /\ [][NextAccounts]_vars

\* The metric routes asked for any reference date on a server in either
\* time zone, the database written between the requests.
NextZoned ==
    \/ Preparing /\ Tick
    \/ \E u \in Users, n \in PlanNames :
           Preparing /\ MayWriteFew /\ nextPlan <= MaxPlans
             /\ CreatePlan(u, n, 100, "monthly")
    \/ \E u \in Users, p \in PlanIds :
           Preparing /\ MayWriteFew /\ nextCustomer <= MaxCustomers
             /\ CreateCustomer(u, OwnEmail(nextCustomer), p, "active", 60)
    \/ \E op \in {"mrr", "churn", "cac"}, u \in Users, d \in 0 .. MaxTime :
           Preparing /\ StartRequest(op, u, d)
    \/ \E n \in TaskNames : IsFirstPending(n) /\ CompleteTask(n)
    \/ Respond

SpecZoned == InitZoned /\ [][NextZoned]_vars

\* Two customer create requests at a time: while one awaits its save,
\* another is served from its lookups to its save.
NextRace ==
    \/ now < AccountMaxTime /\ Tick
    \/ \E u \in Users, n \in PlanNames :
           writes < RaceWrites /\ nextPlan <= MaxPlans
             /\ CreatePlan(u, n, 100, "monthly")
    \/ \E u \in Users, e \in Emails, p \in PlanIds :
           writes < RaceWrites /\ CreateCustomer(u, e, p, "active", 0)
    \/ \E u \in Users, e \in Emails, p \in PlanIds :
           writes < RaceWrites /\ CheckCustomer(u, e, p, "active", 0)
    \/ SaveCustomer

SpecRace == Init /\ [][NextRace]_vars

\* The amounts sent with payments and refunds.
PaymentAmounts == {0, 50, 100}

\* The bodies a payment update is sent with: an amount, a refund amount, or
\* both.
PaymentBodies ==
    [amount : PaymentAmounts] \cup [refundAmount : PaymentAmounts]
      \cup [amount : PaymentAmounts, refundAmount : PaymentAmounts]

\* The payment routes over a plan and its customers.
NextPayments ==
    \/ now < AccountMaxTime /\ Tick
    \/ \E u \in Users, n \in PlanNames :
           writes < PaymentWrites /\ nextPlan <= MaxPlans
             /\ CreatePlan(u, n, 100, "monthly")
    \/ \E u \in Users, p \in PlanIds :
           writes < PaymentWrites /\ nextCustomer <= MaxCustomers
             /\ CreateCustomer(u, OwnEmail(nextCustomer), p, "active", 0)
    \/ \E u \in Users, c \in CustomerIds, p \in PlanIds, a \in PaymentAmounts :
           writes < PaymentWrites /\ Cardinality(payments) < MaxPayments
             /\ CreatePayment(u, c, p, a)
    \/ \E u \in Users, i \in 1 .. MaxPayments, b \in PaymentBodies :
           writes < PaymentWrites /\ UpdatePayment(u, i, b)

SpecPayments == Init /\ [][NextPayments]_vars

\* The bodies two accounts send with their updates: fields the validators
\* name, and the userId field, which no validator names and the handlers
\* pass on.
CustomerOwnerBodies == [status : Statuses] \cup [userId : Accounts]

PlanOwnerBodies == [billingCycle : BillingCycles] \cup [userId : Accounts]

\* The plan and customer routes used by two accounts.
NextOwners ==
    \/ now < AccountMaxTime /\ Tick
    \/ \E u \in Accounts, n \in PlanNames :
           writes < OwnerWrites /\ nextPlan <= AccountPlans
             /\ CreatePlan(u, n, OfferOf(u)[1], OfferOf(u)[2])
    \/ \E u \in Accounts, p \in 1 .. AccountPlans :
           writes < OwnerWrites /\ nextCustomer <= MaxCustomers
             /\ CreateCustomer(u, OwnEmail(nextCustomer), p, "active", 60)
    \/ \E u \in Accounts, c \in CustomerIds, b \in CustomerOwnerBodies :
           writes < OwnerWrites /\ UpdateCustomer(u, c, b)
    \/ \E u \in Accounts, p \in 1 .. AccountPlans, b \in PlanOwnerBodies :
           writes < OwnerWrites /\ UpdatePlan(u, p, b)

SpecOwners == Init /\ [][NextOwners]_vars

\* ------------------------------------------------------------------- claims

\* The step calls getCachedOrCompute for task n.
CalledNow(n) ==
    /\ req' # NoRequest
    /\ req'.t[n].pc # "idle"
    /\ (req = NoRequest \/ req.t[n].pc = "idle")

\* A single calculate* call of the given kind has returned.
HasReturned(op) ==
    req # NoRequest /\ req.op = op /\ Settled(req) /\ ~Rejected(req)

\* A single calculate* call of the given kind has returned what its compute
\* function computed in this request, not a cached value.
HasComputed(op) == HasReturned(op) /\ ~req.t[op].hit

\* The growth percentage of the specification:
\* (current - previous) / previous * 100, and 0 when previous is 0.
GrowthPercent(current, previous) ==
    IF previous.d # 0 /\ previous.n = 0 THEN Num(0)
    ELSE NumMul(NumDiv(NumSub(current, previous), previous), Num(100))

MetricNames == {"mrr", "arr", "churn", "ltv", "cac"}

\* The numbers a settled request has returned.
ReturnedNumbers ==
    IF req.op = "all"
    THEN UNION {{getAllMetrics(req.t)[k].current,
                 getAllMetrics(req.t)[k].previous,
                 getAllMetrics(req.t)[k].growth} : k \in MetricNames}
    ELSE {Returned(req).current, Returned(req).previous, Returned(req).growth}

\* The last instant of local month m: the end of the month.
LastInstantOfMonth(m) == (m + 1) * TicksPerMonth - 1 - tz

\* The account's active customers who subscribed up to the last instant of
\* the reference month.
ActiveByEndOfMonth(userId, date) ==
    {c \in customers : /\ c.userId = userId
                       /\ c.status = "active"
                       /\ c.subscriptionDate
                            <= LastInstantOfMonth(LocalMonth(date))}

\* The customers active when the month began who are churned now.
ChurnedSinceMonthStart ==
    {c \in customers : c.id \in monthStart /\ c.status = "churned"}

\* C1: a getCachedOrCompute call that starts while the cache holds an entry
\* for its key, stored less than 5 minutes (300000 ms) before and not
\* cleared since, returns the stored value at once, its compute function
\* never invoked, and leaves the entry as it is.
C1_HitReturnsStored ==
    [][\A n \in TaskNames :
         CalledNow(n) =>
           LET k == CacheKey(MetricOf(n), req'.userId, req'.date)
           IN  (k \in DOMAIN cache
                  /\ (now - cache[k].timestamp) * TickMs < 300000)
                 => /\ req'.t[n].pc = "done"
                    /\ req'.t[n].hit
                    /\ req'.t[n].data = cache[k].data
                    /\ k \in DOMAIN cache'
                    /\ cache'[k] = cache[k]]_vars

\* C1, its case: a call has returned, from an entry stored at an earlier
\* time, a value that is not the empty default.
C1_Witness ==
    /\ req # NoRequest
    /\ \E n \in TaskNames :
         /\ req.t[n].hit
         /\ req.t[n].data.current = Num(100)
         /\ KeyOf(n, req) \in DOMAIN cache
         /\ cache[KeyOf(n, req)].timestamp < now

\* C2: the first getCachedOrCompute call made for a key after clearCache
\* removed its entry never returns a stored value.
C2_ClearedKeyRecomputes ==
    [][\A n \in TaskNames :
         (CalledNow(n) /\ KeyOf(n, req') \in cleared) => ~req'.t[n].hit]_vars

\* C3: in every object getAllMetrics returns, arr.current is 12 times
\* mrr.current and arr.previous is 12 times mrr.previous.
C3_ArrIsTwelveMrr ==
    (req # NoRequest /\ req.op = "all" /\ Settled(req) /\ ~Rejected(req))
      => LET m == getAllMetrics(req.t)
         IN  /\ m.arr.current = NumMul(Num(12), m.mrr.current)
             /\ m.arr.previous = NumMul(Num(12), m.mrr.previous)

\* C4: calculateMRR's current is the sum of the monthly prices of exactly
\* the account's active customers who subscribed up to the end of the
\* reference month, and calculateARR's current twelve times that.
C4_MrrSumsActiveInMonth ==
    \A op \in {"mrr", "arr"} :
      (HasComputed(op)
         /\ ~HasMissingPlan(ActiveByEndOfMonth(req.userId, req.date)))
        => Returned(req).current =
             NumMul(Num(IF op = "arr" THEN 12 ELSE 1),
                    SumMonthlyPrice(ActiveByEndOfMonth(req.userId, req.date)))

\* C5: the growth calculateMRR returns is the growth percentage of its
\* current over its previous, and calculateARR returns the same growth.
C5_MrrGrowthIsPercent ==
    \A op \in {"mrr", "arr"} :
      HasReturned(op)
        => Returned(req).growth =
             GrowthPercent(Returned(req).current, Returned(req).previous)

\* C6: with N > 0 customers active when the reference month began, k of
\* them moved to churned during the month (none of them on its last day,
\* and nobody else churned), calculateChurnRate's current is k / N * 100.
C6_ChurnRateOverMonthStart ==
    (HasComputed("churn")
       /\ LocalMonth(req.date) = LocalMonth(now)
       /\ monthStart # {}
       /\ \A c \in customers :
            c.status = "churned"
              => /\ c.id \in monthStart
                 /\ c.churnDate <= DayZeroOfNext(LocalMonth(req.date)))
      => Returned(req).current =
           NumMul(Frac(Cardinality(ChurnedSinceMonthStart),
                       Cardinality(monthStart)), Num(100))

\* C7: in every state of the Customer collection a customer's churn date is
\* set if and only if its status is churned.
C7_ChurnDateIffChurned ==
    \A c \in customers : (c.churnDate # NoDate) <=> (c.status = "churned")

\* C8: every metric of the object getAllMetrics returns has the growth
\* percentage of its current over its previous as growth, 0 when previous
\* is 0, and that growth is a finite number.
C8_AllGrowthIsPercent ==
    HasReturned("all")
      => \A k \in MetricNames :
           LET m == getAllMetrics(req.t)[k]
           IN  /\ m.growth = GrowthPercent(m.current, m.previous)
               /\ IsFiniteNum(m.growth)
               /\ IsZero(m.previous) => IsZero(m.growth)

\* C8, its case: getAllMetrics has returned an MRR that doubled over the
\* month before, growth 100, next to metrics whose previous is 0.
C8_Witness ==
    /\ HasReturned("all")
    /\ getAllMetrics(req.t).mrr.previous = Num(100)
    /\ getAllMetrics(req.t).mrr.growth = Num(100)
    /\ getAllMetrics(req.t).arr.growth = Num(100)
    /\ IsZero(getAllMetrics(req.t).cac.previous)
    /\ ~IsZero(getAllMetrics(req.t).cac.current)

\* C9: the growth calculateChurnRate returns is its current less its
\* previous, and the previous it computes is what the same computation
\* gives as current for any date of the calendar month before.
C9_ChurnGrowthIsDifference ==
    HasReturned("churn")
      => /\ Returned(req).growth =
              NumSub(Returned(req).current, Returned(req).previous)
         /\ HasComputed("churn")
              => \A d \in 0 .. MaxTime :
                   LocalMonth(d) = LocalMonth(req.date) - 1
                     => Returned(req).previous
                          = ComputeChurn(req.userId, d).current

\* C9, its case: a churn rate of 200 in the month before and of 0 in the
\* reference month, returned with growth -200 (as a percentage of the
\* previous rate the change is -100).
C9_Witness ==
    /\ HasComputed("churn")
    /\ Returned(req).previous = Num(200)
    /\ Returned(req).current = Num(0)
    /\ Returned(req).growth = Num(-200)

\* C10: every number an operation of the metrics service returns is
\* finite; the churn rate it computes is 0 with no customer at the start
\* of the month, LTV is 0 with a churn rate of 0 or no active customer, CAC
\* is 0 with no new customer in the month; and an operation throws only
\* when an active customer's plan is gone, never because customers are few
\* or none.
C10_FiniteAndGuarded ==
    (req # NoRequest /\ Settled(req))
      => /\ ~Rejected(req) => \A x \in ReturnedNumbers : IsFiniteNum(x)
         /\ \A n \in TaskNames :
              req.t[n].pc = "done" => /\ IsFiniteNum(req.t[n].data.current)
                                      /\ IsFiniteNum(req.t[n].data.previous)
                                      /\ IsFiniteNum(req.t[n].data.growth)
         /\ Rejected(req) => HasMissingPlan(AllActive(req.userId))
         /\ (HasComputed("churn")
               /\ CountActiveBefore(req.userId,
                                    FirstOfMonth(LocalMonth(req.date))) = 0)
              => IsZero(Returned(req).current)
         /\ (HasComputed("ltv") /\ AllActive(req.userId) = {})
              => IsZero(Returned(req).current)
         /\ (HasComputed("ltv") /\ req.t["ltvChurn"].pc = "done"
               /\ IsZero(req.t["ltvChurn"].data.current))
              => IsZero(Returned(req).current)
         /\ (HasComputed("cac")
               /\ NewCustomers(req.userId, FirstOfMonth(LocalMonth(req.date)),
                               LastInstantOfMonth(LocalMonth(req.date))) = {})
              => IsZero(Returned(req).current)

\* C10, its case: the churn rate has been returned for a month at whose
\* start the account had no active customer although it has customers now,
\* one of them churned in this month.
C10_Witness ==
    /\ HasComputed("churn")
    /\ CountActiveBefore(req.userId, FirstOfMonth(LocalMonth(req.date))) = 0
    /\ CountChurnedIn(req.userId, FirstOfMonth(LocalMonth(req.date)),
                      DayZeroOfNext(LocalMonth(req.date))) > 0
    /\ IsZero(Returned(req).current)

\* The monthly price of a customer's plan.
PriceOf(c) == getMonthlyPrice(CHOOSE p \in plans : p.id = c.plan)

\* The sum of the monthly prices of the account's currently active
\* customers divided by their number, 0 when there are none.
AverageRevenue(userId) ==
    LET act == {c \in customers : c.userId = userId /\ c.status = "active"}
    IN  IF act = {} THEN Num(0)
        ELSE NumDiv(SumOver(act, [c \in act |-> PriceOf(c)]),
                    Num(Cardinality(act)))

\* C11: the current calculateLTV computes is the average revenue per
\* active customer divided by the monthly churn rate, which is the churn
\* percentage calculateChurnRate gave it divided by 100, and 0 when that
\* rate is not positive.
C11_LtvIsRevenueOverChurn ==
    HasComputed("ltv")
      => LET rate == NumDiv(req.t["ltvChurn"].data.current, Num(100))
         IN  /\ req.t["ltvChurn"].pc = "done"
             /\ Returned(req).current =
                  IF rate.n > 0
                  THEN NumDiv(AverageRevenue(req.userId), rate)
                  ELSE Num(0)

\* C11, its case: an average revenue of 100 with a churn rate of 50 per
\* cent, returned as a lifetime value of 200.
C11_Witness ==
    /\ HasComputed("ltv")
    /\ AverageRevenue(req.userId) = Num(100)
    /\ req.t["ltvChurn"].data.current = Num(50)
    /\ Returned(req).current = Num(200)

\* calculateLTV has returned what it computed over a cold cache: its
\* calculateChurnRate call computed too.
HasComputedLtvCold ==
    /\ HasComputed("ltv")
    /\ req.t["ltvChurn"].pc = "done"
    /\ ~req.t["ltvChurn"].hit

\* What calculateLTV computes for reference date d over a cold cache on
\* the database as it is.
LtvColdAt(userId, d) == ComputeLTV(userId, ComputeChurn(userId, d)).current

SubscribedInMonth(userId, date) ==
    {c \in customers : /\ c.userId = userId
                       /\ c.subscriptionDate
                            >= FirstOfMonth(LocalMonth(date))
                       /\ c.subscriptionDate
                            <= LastInstantOfMonth(LocalMonth(date))}

\* C13: the current calculateCAC computes is the sum of the acquisition
\* costs of exactly the account's customers who subscribed within the
\* reference month, divided by their number, and 0 when there are none.
C13_CacAveragesNewCustomers ==
    HasComputed("cac")
      => LET S == SubscribedInMonth(req.userId, req.date)
         IN  Returned(req).current =
               IF S = {} THEN Num(0)
               ELSE NumDiv(SumOver(S, [c \in S |-> Num(c.acquisitionCost)]),
                           Num(Cardinality(S)))

\* C14: calculateLTV and calculateCAC return previous 0 and growth 0,
\* and so do the ltv and cac of every object getAllMetrics returns.
C14_LtvCacNoHistory ==
    /\ \A op \in {"ltv", "cac"} :
         HasReturned(op) => /\ Returned(req).previous = Num(0)
                            /\ Returned(req).growth = Num(0)
    /\ HasReturned("all")
         => \A k \in {"ltv", "cac"} :
              /\ getAllMetrics(req.t)[k].previous = Num(0)
              /\ getAllMetrics(req.t)[k].growth = Num(0)

\* C14, its case: getAllMetrics has returned a lifetime value and an
\* acquisition cost that are not 0, in a month before which customers
\* were acquired at a cost too.
C14_Witness ==
    /\ HasReturned("all")
    /\ ~IsZero(getAllMetrics(req.t).ltv.current)
    /\ ~IsZero(getAllMetrics(req.t).cac.current)
    /\ \E c \in customers :
         /\ c.acquisitionCost > 0
         /\ LocalMonth(c.subscriptionDate) = LocalMonth(req.date) - 1
         /\ c.subscriptionDate <= PrevMonthEnd(req.date)

\* C15: the previous calculateMRR computes for a date is the current it
\* computes, over the same database and an empty cache, for any date of
\* the calendar month before.
C15_PreviousIsCurrentOfPriorMonth ==
    HasComputed("mrr")
      => \A d \in (-TicksPerMonth) .. MaxTime :
           LocalMonth(d) = LocalMonth(req.date) - 1
             => Returned(req).previous = ComputeMRR(req.userId, d).current

\* C15, its case: calculateMRR has returned, for a date that is not the
\* current time, a previous of 100 next to a current of 200.
C15_Witness ==
    /\ HasComputed("mrr")
    /\ req.date # now
    /\ Returned(req).previous = Num(100)
    /\ Returned(req).current = Num(200)

\* The customers and the plans an account owns.
OwnRecords(u) ==
    <<{c \in customers : c.userId = u}, {p \in plans : p.userId = u}>>

\* What the database answers to the queries the compute functions of the
\* service issue for an account, for a reference date in every month (the
\* queries read no more of the date than its month): the customers found
\* and counted, and the plans populated into them.
QueriesFor(u) ==
    [m \in (-1) .. MaxMonth |->
       <<ActiveUpTo(u, DayZeroOfNext(m)),
         CountActiveBefore(u, FirstOfMonth(m)),
         CountChurnedIn(u, FirstOfMonth(m), DayZeroOfNext(m)),
         NewCustomers(u, FirstOfMonth(m), DayZeroOfNext(m)),
         AllActive(u),
         {<<c.id, PlanOf(c)>> : c \in AllActive(u)}>>]

\* The cache entries under the keys of an account.
EntriesOf(u) ==
    [k \in {x \in DOMAIN cache : x[2] = u} |-> cache[k]]

HasComputedHistory ==
    /\ req # NoRequest
    /\ req.op = "historical"
    /\ req.phase = "done"
    /\ ~req.hit

\* C17: the sequence getHistoricalData(accountId, months) computes has
\* exactly `months` entries, and entry i (counted from 0, oldest first) is
\* labelled with the calendar month that lies months-1-i months before the
\* month current when it was asked for, so that the last entry is labelled
\* with the current month.
C17_HistoryLabelsMonths ==
    HasComputedHistory
      => /\ Len(req.out) = req.months
         /\ \A i \in 1 .. Len(req.out) :
              req.out[i].month = LocalMonth(req.start) - (req.months - i)

\* getCustomerGrowth has returned the sequence its compute function built in
\* this request.
HasComputedGrowth ==
    /\ req # NoRequest
    /\ req.op = "growth"
    /\ req.phase = "done"
    /\ ~req.hit

\* The customers of the account that existed at the last instant of month
\* m, and those of them that were then active and churned.  Customers here
\* only move from active to churned, so a customer was active at an instant
\* when it had subscribed and had not yet churned.
ExistedAtEndOf(userId, m) ==
    {c \in customers : /\ c.userId = userId
                       /\ c.subscriptionDate <= LastInstantOfMonth(m)}

ChurnedAtEndOf(userId, m) ==
    {c \in ExistedAtEndOf(userId, m) :
       c.status = "churned" /\ c.churnDate <= LastInstantOfMonth(m)}

ActiveAtEndOf(userId, m) ==
    ExistedAtEndOf(userId, m) \ ChurnedAtEndOf(userId, m)

\* No customer subscribed or churned during the last day of a month.
NoLastDayEvents ==
    \A c \in customers :
      /\ c.subscriptionDate <= DayZeroOfNext(LocalMonth(c.subscriptionDate))
      /\ c.churnDate # NoDate
           => c.churnDate <= DayZeroOfNext(LocalMonth(c.churnDate))

\* C18: in the sequence getCustomerGrowth computes, the entry of each month
\* counts as total, active and churned the account's customers that
\* existed, were active and were churned at that month's end; a customer
\* active at the end of the month who churned later counts as active.
\* (Stated for databases where nothing happened on a month's last day.)
C18_GrowthCountsAsOfMonthEnd ==
    (HasComputedGrowth /\ NoLastDayEvents)
      => \A i \in 1 .. Len(req.out) :
           LET m == LocalMonth(req.start) - (req.months - i)
           IN  /\ req.out[i].total = Cardinality(ExistedAtEndOf(req.userId, m))
               /\ req.out[i].active = Cardinality(ActiveAtEndOf(req.userId, m))
               /\ req.out[i].churned =
                    Cardinality(ChurnedAtEndOf(req.userId, m))

\* The call that awaits the call of a task: calculateLTV awaits its calls of
\* calculateChurnRate and calculateMRR, the route awaits the others.
AwaitedBy(n) == IF n \in {"ltvChurn", "ltvMrr"} THEN "ltv" ELSE n

\* C19: when the persistence layer rejects a query of a metrics operation,
\* the call fails with that error and so does the call awaiting it; nothing
\* is stored in the cache, no query is issued again or anew, a single
\* calculate* request fails with the same error and a getAllMetrics request
\* is rejected as a whole; a call that has failed stays failed for the rest
\* of the request.
C19_FailurePropagates ==
    [][/\ \A n \in TaskNames, e \in DbErrors :
            FailTask(n, e)
              => /\ req'.t[n].pc = "failed"
                 /\ req'.t[n].data = [error |-> e]
                 /\ req'.t[AwaitedBy(n)].pc = "failed"
                 /\ req'.t[AwaitedBy(n)].data = [error |-> e]
                 /\ cache' = cache
                 /\ \A k \in TaskNames :
                      req'.t[k].pc = "read" => req.t[k].pc = "read"
                 /\ AwaitedBy(n) \in TopTasks(req.op) => Rejected(req')
       /\ \A n \in TaskNames :
            (req # NoRequest /\ req' # NoRequest /\ req.t[n].pc = "failed")
              => req'.t[n] = req.t[n]]_vars

\* C19, its case: in a getAllMetrics request the call of calculateMRR made
\* by calculateLTV was rejected by the persistence layer, calculateLTV has
\* failed with the same error, another calculation has returned its data,
\* and the request is rejected as a whole.
C19_Witness ==
    /\ req # NoRequest
    /\ req.op = "all"
    /\ Settled(req)
    /\ req.t["ltvMrr"].pc = "failed"
    /\ req.t["ltvMrr"].data \in {[error |-> e] : e \in DbErrors}
    /\ req.t["ltv"].pc = "failed"
    /\ req.t["ltv"].data = req.t["ltvMrr"].data
    /\ req.t["cac"].pc = "done"
    /\ Rejected(req)

\* C20: clearCache() leaves the cache empty: every entry of every account
\* is removed, fresh or past its time-out, whoever asked for the refresh.
C20_ClearEmptiesCache ==
    [][ClearCache
         => /\ DOMAIN cache' = {}
            /\ \A u \in Accounts : DOMAIN EntriesOf(u)' = {}]_vars

\* C20, its case: the cache is empty after a refresh that removed entries
\* of both accounts.
C20_Witness ==
    /\ cache = <<>>
    /\ \A u \in Accounts : \E k \in cleared : k[2] = u

\* What the calls of getAllMetrics return when they are run one after
\* another on the database as it is, for the calls the cache did not
\* answer: calculateARR and calculateLTV rest on what calculateMRR and
\* calculateChurnRate returned.
OneAfterAnother(r, n) ==
    CASE n = "mrr"   -> ComputeMRR(r.userId, r.date)
      [] n = "arr"   -> r.t["mrr"].data
      [] n = "churn" -> ComputeChurn(r.userId, r.date)
      [] n = "ltv"   -> ComputeLTV(r.userId, r.t["churn"].data)
      [] n = "cac"   -> ComputeCAC(r.userId, r.date)

\* C21: while the database does not change, getAllMetrics returns the same
\* for every interleaving of its calls and of the stores of a concurrent
\* request: a call the cache answered returns the entry held when the
\* request was made, whatever happens to the cache later, and every other
\* call returns what it would return were the calls run one after another;
\* calculateARR rests on the data calculateMRR returned.
C21_AnyInterleavingSameResult ==
    [][/\ \A n \in MetricNames :
            (req = NoRequest /\ req' # NoRequest /\ req'.t[n].hit)
              => req'.t[n].data = cache[KeyOf(n, req')].data
       /\ \A n \in MetricNames :
            (req # NoRequest /\ req' # NoRequest /\ req.t[n].hit)
              => req'.t[n] = req.t[n]
       /\ (req # NoRequest /\ req.op = "all" /\ Settled(req)
              /\ ~Rejected(req))
            => /\ \A n \in MetricNames :
                    ~req.t[n].hit => req.t[n].data = OneAfterAnother(req, n)
               /\ req.t["arr"].data = req.t["mrr"].data]_vars

\* C21, its case: getAllMetrics has returned non-zero revenue and
\* acquisition cost, its call of calculateCAC having been answered by the
\* database before its call of calculateMRR was, while a concurrent request
\* had stored the revenue under the key first.
C21_Witness ==
    /\ req # NoRequest
    /\ req.op = "all"
    /\ req.t["cac"].pc = "done"
    /\ ~req.t["cac"].hit
    /\ ~IsZero(req.t["cac"].data.current)
    /\ req.t["mrr"].pc = "read"
    /\ KeyOf("mrr", req) \in DOMAIN cache
    /\ ~IsZero(cache[KeyOf("mrr", req)].data.current)

\* The entry under key k is less than 5 minutes (300000 ms) old.
IsFresh(k) ==
    k \in DOMAIN cache /\ (now - cache[k].timestamp) * TickMs < 300000

\* C22: a getCachedOrCompute call returns the stored value, its compute
\* function not invoked, exactly when the cache holds an entry for its key
\* stored strictly less than 5 minutes before; otherwise it invokes the
\* compute function, once, and when that has returned replaces the entry
\* by the result stamped with the time of the store, and returns the result.
C22_HitExactlyWhenFresh ==
    [][\A n \in TaskNames :
         /\ CalledNow(n)
              => LET k == KeyOf(n, req')
                 IN  /\ req'.t[n].hit <=> IsFresh(k)
                     /\ req'.t[n].hit
                          => /\ req'.t[n].pc = "done"
                             /\ req'.t[n].data = cache[k].data
                     /\ ~req'.t[n].hit
                          => req'.t[n].pc \in {"read", "waitChurn", "waitMrr"}
         /\ (req # NoRequest /\ req' # NoRequest /\ req.t[n].pc = "store"
               /\ req'.t[n].pc # "store")
              => /\ req'.t[n].pc = "done"
                 /\ req'.t[n].data = req.t[n].data
                 /\ KeyOf(n, req) \in DOMAIN cache'
                 /\ cache'[KeyOf(n, req)] =
                      [data |-> req.t[n].data, timestamp |-> now]
         /\ (req # NoRequest /\ req' # NoRequest
               /\ req.t[n].pc \in {"store", "done", "failed"})
              => req'.t[n].pc # "read"]_vars

\* C22, its case: a call has missed an entry that is exactly 5 minutes old
\* and has invoked its compute function.
C22_Witness ==
    /\ req # NoRequest
    /\ \E n \in TaskNames :
         /\ req.t[n].pc = "read"
         /\ KeyOf(n, req) \in DOMAIN cache
         /\ (now - cache[KeyOf(n, req)].timestamp) * TickMs = 300000

\* Every write of the database that the metrics see (a customer created, a
\* customer churned) was made more than 5 minutes (300000 ms) ago, so that
\* every read of the last 5 minutes was answered from the database as it
\* is.
QuietForTimeToLive ==
    \A c \in customers :
      /\ (now - c.subscriptionDate) * TickMs > 300000
      /\ c.churnDate # NoDate => (now - c.churnDate) * TickMs > 300000

\* The lifetime value computed from reads of the database as it is.
LtvFromReadsNow(userId, date) ==
    ComputeLTV(userId, ComputeChurn(userId, date))

\* C23: a value returned at time t rests on reads made no earlier than
\* 5 minutes before t: when the database has not been written for more than
\* 5 minutes, the churn rate and the lifetime value returned, and the
\* lifetime value in every entry of the history returned, are those
\* computed from the database as it is.
C23_ValuesWithinTimeToLive ==
    QuietForTimeToLive
      => /\ HasReturned("churn")
              => Returned(req).current
                   = ComputeChurn(req.userId, req.date).current
         /\ HasReturned("ltv")
              => Returned(req).current
                   = LtvFromReadsNow(req.userId, req.date).current
         /\ (req # NoRequest /\ req.op = "historical" /\ req.phase = "done")
              => \A i \in 1 .. Len(req.out) :
                   req.out[i].ltv.current
                     = LtvFromReadsNow(req.userId, req.out[i].date).current

\* C24: after any sequence of plan and customer requests every customer
\* with status active references a plan that exists, so that the sums of
\* calculateMRR and calculateLTV never meet a missing plan.
C24_ActiveCustomersHavePlans ==
    \A c \in customers : c.status = "active" => PlanOf(c) # {}

\* The calendar months the clock passes through.
MonthsOfClock == 0 .. MaxMonth

\* The months of which calculateCAC takes customer c for a new customer.
MonthsNewIn(c) ==
    {m \in MonthsOfClock :
       c \in NewCustomers(c.userId, FirstOfMonth(m), DayZeroOfNext(m))}

RECURSIVE ChurnedUpToMonth(_, _)
\* The customers calculateChurnRate counts as churned in the months 0 .. m,
\* added up.
ChurnedUpToMonth(userId, m) ==
    IF m < 0 THEN 0
    ELSE CountChurnedIn(userId, FirstOfMonth(m), DayZeroOfNext(m))
           + ChurnedUpToMonth(userId, m - 1)

\* C25: the month windows of consecutive months partition time: every
\* customer is a new customer of exactly one month for calculateCAC, and
\* the churned customers counted by calculateChurnRate over all the months
\* are the churned customers of the account, each counted once.
C25_MonthWindowsPartitionTime ==
    /\ \A c \in customers : Cardinality(MonthsNewIn(c)) = 1
    /\ \A u \in Users :
         ChurnedUpToMonth(u, MaxMonth)
           = Cardinality({c \in customers :
                            c.userId = u /\ c.status = "churned"
                              /\ c.churnDate # NoDate})

\* Some other call of the request has computed and stored under the key of
\* call n.
StoredByAnother(n) ==
    \E m \in TaskNames \ {n} :
      /\ MetricOf(m) = MetricOf(n)
      /\ req.t[m].pc = "done"
      /\ ~req.t[m].hit

\* C26: the step in which the compute function of a getCachedOrCompute
\* call fails leaves the cache as it was, the entry under the key of the
\* call included; no entry ever holds a failure; and unless another call
\* has stored under the key since, the key still has no fresh entry after
\* the failure, so that the next call for it invokes its compute function.
C26_FailureLeavesEntry ==
    [][/\ \A n \in TaskNames :
            (req # NoRequest /\ req' # NoRequest
               /\ req.t[n].pc # "failed" /\ req'.t[n].pc = "failed")
              => cache' = cache
       /\ \A k \in DOMAIN cache : "error" \notin DOMAIN cache[k].data
       /\ \A n \in TaskNames :
            (req # NoRequest /\ req.t[n].pc = "failed" /\ ~StoredByAnother(n))
              => ~IsCacheHit(KeyOf(n, req))]_vars

\* C26, its case: a call whose query the persistence layer rejected has
\* failed while the cache still holds, under its key, the expired entry of
\* an earlier call with its old timestamp.
C26_Witness ==
    /\ req # NoRequest
    /\ \E n \in TaskNames :
         /\ req.t[n].pc = "failed"
         /\ req.t[n].data \in {[error |-> e] : e \in DbErrors}
         /\ KeyOf(n, req) \in DOMAIN cache
         /\ (now - cache[KeyOf(n, req)].timestamp) * TickMs >= 300000

\* C27: no request changes the account that owns a record: a customer and
\* a plan belong after every step to the account they belonged to before,
\* so that the records of an account are touched by its own requests only.
C27_OwnerNeverChanges ==
    [][/\ \A c \in customers, d \in customers' :
            c.id = d.id => c.userId = d.userId
       /\ \A p \in plans, q \in plans' :
            p.id = q.id => p.userId = q.userId]_vars

\* C28: after any sequence of payment create and update requests the
\* refund of every payment is at most its amount, so that the net amount
\* is not negative.
C28_RefundWithinAmount ==
    \A p \in payments : p.refundAmount <= p.amount

\* C29: within one account no two customers ever share an email, however
\* the customer create requests of the account interleave.
C29_EmailUniqueInAccount ==
    \A c \in customers, d \in customers :
      (c.userId = d.userId /\ c.email = d.email) => c.id = d.id

\* The window [startOfMonth, endOfMonth] the computations use for a
\* reference date.
WindowOf(date) ==
    <<FirstOfMonth(LocalMonth(date)), DayZeroOfNext(LocalMonth(date))>>

\* C30: the cache key of a call made for a reference date is the key of
\* another reference date exactly when the computation uses the same
\* window of a month for both, so that what was computed for one month is
\* never returned for a date of another.
C30_KeyMonthIsWindowMonth ==
    (req # NoRequest /\ req.op \in Ops)
      => \A n \in CalledTasks(req.t), d \in 0 .. MaxTime :
           (KeyOf(n, req) = CacheKey(MetricOf(n), req.userId, d))
             <=> (WindowOf(req.date) = WindowOf(d))

============================================================================
